---- MODULE Spec2Model ----
(***************************************************************************)
(* Model of the URL shortener of src/main.go: the short-code generator,   *)
(* shortenHandler (POST /api/shorten) and redirectHandler (GET /{code}),   *)
(* over the bbolt store (buckets "urls" and "reverse") and the go-cache    *)
(* hot cache.  Go strings are sequences of one-character strings, so the   *)
(* empty Go string "" is the empty sequence <<>>.  Every store transaction *)
(* (DB.View, DB.Update) and every cache call is one atomic step of the     *)
(* handler that makes it; handlers of different requests interleave        *)
(* between those steps.                                                    *)
(***************************************************************************)
EXTENDS Naturals, Sequences, FiniteSets, TLC

VARIABLES
    urls,       \* bucket "urls": short code -> serialized URL record
    reverse,    \* bucket "reverse": original url -> short code
    cache,      \* app.Cache: short code -> original url (unexpired entries)
    pending,    \* background increment goroutines not yet run: code -> how many
    now,        \* the clock read by time.Now()
    pc,         \* per worker: position of the handler it runs
    req,        \* per worker: the handler's locals (req.URL, shortCode, hash, err, ...)
    resp,       \* per worker: the response the handler wrote
    answers,    \* history: the <<url, code>> of each successful Shorten answer, in order
    written,    \* history: codes under which some Shorten committed a record
    calls,      \* history: code -> Resolve calls begun once the code was issued
    nres,       \* history: Resolve calls begun
    nshort      \* history: Shorten calls begun

vars == <<urls, reverse, cache, pending, now, pc, req, resp, answers, written, calls, nres,
          nshort>>

(***************************************************************************)
(* Bounds of the model.                                                    *)
(***************************************************************************)
NumProcs == 2       \* worker goroutines serving requests at the same time
NumHashes == 2      \* distinct md5 digests the generator can draw
MaxTime == 1        \* the clock runs 0..MaxTime
MaxResolves == 2    \* Resolve calls begun in one behaviour
MaxShortens == 2    \* Shorten calls begun in one behaviour

Procs == 1..NumProcs

(***************************************************************************)
(* Strings.                                                                *)
(***************************************************************************)
base62Chars ==
    <<"a","b","c","d","e","f","g","h","i","j","k","l","m",
      "n","o","p","q","r","s","t","u","v","w","x","y","z",
      "A","B","C","D","E","F","G","H","I","J","K","L","M",
      "N","O","P","Q","R","S","T","U","V","W","X","Y","Z",
      "0","1","2","3","4","5","6","7","8","9">>

Alphabet == { base62Chars[i] : i \in 1..Len(base62Chars) }

HasPrefix(s, p) == Len(s) >= Len(p) /\ SubSeq(s, 1, Len(p)) = p

HttpPrefix == <<"h","t","t","p",":","/","/">>
HttpsPrefix == <<"h","t","t","p","s",":","/","/">>

(***************************************************************************)
(* isValidURL.  The argument always starts with "http://" or "https://"    *)
(* (shortenHandler prepends "https://" otherwise), so url.Parse finds a    *)
(* scheme, and the authority is what lies between the "//" and the next    *)
(* "/", "?" or "#"; the host is the authority after its userinfo.          *)
(***************************************************************************)
IndexOf(s, chars) ==
    IF \E i \in 1..Len(s) : s[i] \in chars
    THEN CHOOSE i \in 1..Len(s) : s[i] \in chars /\ \A j \in 1..(i - 1) : s[j] \notin chars
    ELSE 0

\* getScheme: the letters, digits, "+", "-", "." before the first ":".
getScheme(s) ==
    LET i == IndexOf(s, {":"})
    IN IF i > 1 /\ s[1] \in { base62Chars[k] : k \in 1..52 }
          /\ \A j \in 1..(i - 1) : s[j] \in Alphabet \cup {"+", "-", "."}
       THEN SubSeq(s, 1, i - 1)
       ELSE <<>>

\* The authority of the part that follows "scheme:".
getAuthority(rest) ==
    IF HasPrefix(rest, <<"/", "/">>)
    THEN LET a == SubSeq(rest, 3, Len(rest))
             e == IndexOf(a, {"/", "?", "#"})
         IN IF e = 0 THEN a ELSE SubSeq(a, 1, e - 1)
    ELSE <<>>

\* parseAuthority: the host is what follows the last "@".
getHost(auth) ==
    LET ats == { i \in 1..Len(auth) : auth[i] = "@" }
    IN IF ats = {} THEN auth
       ELSE SubSeq(auth, (CHOOSE i \in ats : \A j \in ats : j <= i) + 1, Len(auth))

\* Characters url.Parse rejects in a host name: the ASCII characters that
\* shouldEscape reports in host mode (those the model's inputs can hold).
InvalidHostChars == {" ", "^", "{", "|", "}"}

\* validOptionalPort: what follows the last ":" of the host must be digits.
InvalidPort(host) ==
    LET colons == { i \in 1..Len(host) : host[i] = ":" }
    IN colons # {} /\
       LET last == CHOOSE i \in colons : \A j \in colons : j <= i
       IN \E j \in (last + 1)..Len(host) : host[j] \notin { base62Chars[k] : k \in 53..62 }

ParseError(s) ==
    LET host == getHost(getAuthority(SubSeq(s, Len(getScheme(s)) + 2, Len(s))))
    IN \/ \E i \in 1..Len(host) : host[i] \in InvalidHostChars
       \/ InvalidPort(host)

isValidURL(s) ==
    LET scheme == getScheme(s)
        host == getHost(getAuthority(SubSeq(s, Len(scheme) + 2, Len(s))))
    IN ~ParseError(s) /\ scheme # <<>> /\ host # <<>>

\* Mutant: only the http prefix is recognised, not the https one.
NormalizeHttpOnly(u) ==
    IF ~HasPrefix(u, HttpPrefix)
    THEN HttpsPrefix \o u
    ELSE u

\* shortenHandler's "add http if missing".
Normalize(u) ==
    IF ~HasPrefix(u, HttpPrefix) /\ ~HasPrefix(u, HttpsPrefix)
    THEN HttpsPrefix \o u
    ELSE u

\* The request bodies the model submits (the "url" field of the JSON request).
Inputs ==
    { <<"a",".","c","o">>,                                   \* a.co
      <<"h","t","t","p","s",":","/","/","a",".","c","o">>,   \* https://a.co
      <<"h","t","t","p",":","/","/","b">>,                   \* http://b
      <<>>,                                                  \* the empty string
      <<"h","t","t","p",":","/","/">> }                      \* http://

(***************************************************************************)
(* generateShortCode's candidate.  hex.EncodeToString yields lower-case    *)
(* hexadecimal digits, and hash[i] is the byte (ASCII code) of the digit.  *)
(***************************************************************************)
HexDigits == <<"0","1","2","3","4","5","6","7","8","9","a","b","c","d","e","f">>

\* int(hash[i]): the byte value of a hexadecimal digit character.
ByteOf(ch) ==
    LET d == CHOOSE k \in 1..16 : HexDigits[k] = ch
    IN IF d <= 10 THEN 48 + (d - 1) ELSE 97 + (d - 11)

CodeLen == 8
Base == 62

\* Mutant: the loop stops one character short.
CodeOfHashShort(hash) ==
    [i \in 1..(CodeLen - 1) |-> base62Chars[(ByteOf(hash[i]) % Base) + 1]]

\* The loop of lines 58-64 over the hexadecimal string hash.
CodeOfHash(hash) ==
    [i \in 1..CodeLen |-> base62Chars[(ByteOf(hash[i]) % Base) + 1]]

\* The first eight bytes of the k-th md5 digest of the model (hasher.Sum).  The
\* digest depends on the URL and on a nanosecond timestamp, so which digest a
\* call gets is a free choice.  HexOf(n) is the eight hexadecimal digits of n,
\* with which HexEncode(DigestOf(n)) starts.
HashSeed == 305419896
HexOf(n) == [i \in 1..CodeLen |-> HexDigits[((n \div (16 ^ (CodeLen - i))) % 16) + 1]]
DigestOf(n) == [i \in 1..CodeLen |-> (n \div (256 ^ (3 - ((i - 1) % 4)))) % 256]
Digests == { DigestOf(k * HashSeed) : k \in 1..NumHashes }

\* hex.EncodeToString: two hexadecimal digits per byte, high digit first.
HexEncode(bytes) ==
    [i \in 1..(2 * Len(bytes)) |->
        IF i % 2 = 1 THEN HexDigits[(bytes[(i + 1) \div 2] \div 16) + 1]
                     ELSE HexDigits[(bytes[i \div 2] % 16) + 1]]

\* The hexadecimal strings generateShortCode can hold in hash.
Hashes == { HexEncode(d) : d \in Digests }

Codes == { CodeOfHash(h) : h \in Hashes }

\* A well-formed code that no digest maps to (the route accepts any 8 alphanumerics).
UnusedCode == [i \in 1..CodeLen |-> "z"]

(***************************************************************************)
(* The URL record and its JSON form in the "urls" bucket.                  *)
(***************************************************************************)
URL(u, c, t, n) == [ID |-> 0, OriginalURL |-> u, ShortCode |-> c, CreatedAt |-> t, ClickCount |-> n]

\* json.Marshal: the fields in declaration order, under their JSON names.
Marshal(r) ==
    << <<"id", r.ID>>, <<"original_url", r.OriginalURL>>, <<"short_code", r.ShortCode>>,
       <<"created_at", r.CreatedAt>>, <<"click_count", r.ClickCount>> >>

\* json.Unmarshal into a URL value.
Unmarshal(v) ==
    LET f(name) == (CHOOSE i \in 1..Len(v) : v[i][1] = name)
    IN [ID |-> v[f("id")][2], OriginalURL |-> v[f("original_url")][2],
        ShortCode |-> v[f("short_code")][2], CreatedAt |-> v[f("created_at")][2],
        ClickCount |-> v[f("click_count")][2]]

\* bucket.Get: the value under a key, or "absent" (Go nil).
Has(bucket, k) == k \in DOMAIN bucket
\* bucket.Put / Cache.Set.
Put(bucket, k, v) == [x \in DOMAIN bucket \cup {k} |-> IF x = k THEN v ELSE bucket[x]]
\* An entry leaving the cache.
Drop(bucket, k) == [x \in DOMAIN bucket \ {k} |-> bucket[x]]

Empty == [x \in {} |-> <<>>]

\* How many times a key is counted in a counting map (0 when absent).
Count(m, k) == IF Has(m, k) THEN m[k] ELSE 0

(***************************************************************************)
(* Responses.                                                              *)
(***************************************************************************)
NoResp == [kind |-> "none"]
ShortenOK(c, u) == [kind |-> "shortened", short_code |-> c, original_url |-> u]
ErrorResponse(status, msg) == [kind |-> "error", status |-> status, error |-> msg]
Redirect(u) == [kind |-> "redirect", location |-> u]
NotFound == [kind |-> "notfound"]

\* The handler's locals: the request's "url" field as received (input), req.URL
\* (url), shortCode / existingCode (code), originalURL (orig), the generator's
\* hash, and whether the last store transaction returned an error (err).
NoReq == [op |-> "none", input |-> <<>>, url |-> <<>>, code |-> <<>>, orig |-> <<>>,
          hash |-> <<>>, err |-> FALSE]

\* The codes a Resolve request may carry.
ResolveInputs == Codes \cup {UnusedCode}

Init ==
    /\ urls = Empty
    /\ reverse = Empty
    /\ cache = Empty
    /\ pending = Empty
    /\ now = 0
    /\ pc = [p \in Procs |-> "idle"]
    /\ req = [p \in Procs |-> NoReq]
    /\ resp = [p \in Procs |-> NoResp]
    /\ answers = <<>>
    /\ written = {}
    /\ calls = Empty
    /\ nres = 0
    /\ nshort = 0

store == <<urls, reverse>>

\* The record stored under a code, and the <<url, code>> pairs Shorten answered.
Rec(c) == Unmarshal(urls[c])
Returned == { answers[i] : i \in 1..Len(answers) }
hist == <<answers, written, calls, nres, nshort>>

\* The handler of worker p answers r and returns.
Answer(p, r) ==
    /\ resp' = [resp EXCEPT ![p] = r]
    /\ pc' = [pc EXCEPT ![p] = "done"]

(***************************************************************************)
(* shortenHandler.                                                         *)
(***************************************************************************)
\* Lines 98-127: decode the request, add the scheme if missing, validate.
ShortenBegin(p, input) ==
    /\ pc[p] = "idle"
    /\ nshort < MaxShortens
    /\ nshort' = nshort + 1
    /\ LET u == Normalize(input)
       IN /\ req' = [req EXCEPT ![p] = [NoReq EXCEPT !.op = "shorten", !.input = input,
                                                      !.url = u]]
          /\ IF ~isValidURL(u)
             THEN Answer(p, ErrorResponse(400, "invalid url format"))
             ELSE /\ pc' = [pc EXCEPT ![p] = "dedup"]
                  /\ resp' = resp
    /\ UNCHANGED <<store, cache, pending, now, answers, written, calls, nres>>

\* Mutant: the reverse-index lookup never finds the URL.
ShortenDedupMiss(p, ok) ==
    /\ pc[p] = "dedup"
    /\ pc' = [pc EXCEPT ![p] = "generate"]
    /\ UNCHANGED <<resp, answers, req>>
    /\ UNCHANGED <<store, cache, pending, now, written, calls, nres, nshort>>

\* Mutant: a lookup that finds the URL also puts the pair in the cache.
ShortenDedupRefresh(p, ok) ==
    /\ pc[p] = "dedup"
    /\ LET existingCode == IF ok /\ Has(reverse, req[p].url) THEN reverse[req[p].url] ELSE <<>>
       IN IF ok /\ existingCode # <<>>
          THEN /\ Answer(p, ShortenOK(existingCode, req[p].url))
               /\ answers' = Append(answers, <<req[p].url, existingCode>>)
               /\ req' = [req EXCEPT ![p].code = existingCode]
               /\ cache' = Put(cache, existingCode, req[p].url)
          ELSE /\ pc' = [pc EXCEPT ![p] = "generate"]
               /\ req' = [req EXCEPT ![p].err = ~ok]
               /\ UNCHANGED <<resp, answers, cache>>
    /\ UNCHANGED <<store, pending, now, written, calls, nres, nshort>>

\* Lines 129-151: the read-only transaction on the reverse index; ok says
\* whether DB.View returned no error.
ShortenDedup(p, ok) ==
    /\ pc[p] = "dedup"
    /\ LET existingCode == IF ok /\ Has(reverse, req[p].url) THEN reverse[req[p].url] ELSE <<>>
       IN IF ok /\ existingCode # <<>>
          THEN /\ Answer(p, ShortenOK(existingCode, req[p].url))
               /\ answers' = Append(answers, <<req[p].url, existingCode>>)
               /\ req' = [req EXCEPT ![p].code = existingCode]
          ELSE /\ pc' = [pc EXCEPT ![p] = "generate"]
               /\ req' = [req EXCEPT ![p].err = ~ok]
               /\ UNCHANGED <<resp, answers>>
    /\ UNCHANGED <<store, cache, pending, now, written, calls, nres, nshort>>

\* Mutant: the candidate is returned without the existence check.
generateShortCodeNoCheck(p, hash, ok) ==
    /\ pc[p] = "generate"
    /\ IF ~ok
       THEN /\ Answer(p, ErrorResponse(500, "server error"))
            /\ req' = [req EXCEPT ![p].hash = hash, ![p].err = TRUE]
       ELSE /\ pc' = [pc EXCEPT ![p] = "write"]
            /\ req' = [req EXCEPT ![p].code = CodeOfHash(hash), ![p].hash = hash,
                                  ![p].err = FALSE]
            /\ resp' = resp
    /\ UNCHANGED <<store, cache, pending, now, hist>>

\* Lines 51-89, called at line 154: one pass of generateShortCode with digest
\* hash; ok says whether the existence check's DB.View returned no error.  A
\* candidate found in the store leaves the handler here, to try again.
generateShortCode(p, hash, ok) ==
    /\ pc[p] = "generate"
    /\ LET shortCode == CodeOfHash(hash)
           exists == Has(urls, shortCode)
       IN IF ~ok
          THEN /\ Answer(p, ErrorResponse(500, "server error"))
               /\ req' = [req EXCEPT ![p].hash = hash, ![p].err = TRUE]
          ELSE IF exists
               THEN /\ req' = [req EXCEPT ![p].hash = hash, ![p].err = FALSE]
                    /\ UNCHANGED <<pc, resp>>
               ELSE /\ pc' = [pc EXCEPT ![p] = "write"]
                    /\ req' = [req EXCEPT ![p].code = shortCode, ![p].hash = hash,
                                          ![p].err = FALSE]
                    /\ resp' = resp
    /\ UNCHANGED <<store, cache, pending, now, hist>>

\* Mutant: the two entries are written apart, so a failure after the reverse
\* entry leaves it without its record.
ShortenWriteSplit(p, ok) ==
    /\ pc[p] = "write"
    /\ IF ok
       THEN /\ urls' = Put(urls, req[p].code, Marshal(URL(req[p].url, req[p].code, now, 0)))
            /\ reverse' = Put(reverse, req[p].url, req[p].code)
            /\ written' = written \cup {req[p].code}
            /\ pc' = [pc EXCEPT ![p] = "cache"]
            /\ resp' = resp
       ELSE /\ Answer(p, ErrorResponse(500, "failed to save url"))
            /\ reverse' = Put(reverse, req[p].url, req[p].code)
            /\ UNCHANGED <<urls, written>>
    /\ UNCHANGED <<cache, pending, now, req, answers, calls, nres, nshort>>

\* Mutant: the write transaction keeps an existing reverse entry and stores
\* nothing when the URL already has one, and the handler goes on as if its
\* own code had been stored.
ShortenWriteKeepFirst(p, ok) ==
    /\ pc[p] = "write"
    /\ IF ok
       THEN /\ IF Has(reverse, req[p].url)
               THEN UNCHANGED <<store, written>>
               ELSE /\ urls' = Put(urls, req[p].code,
                                   Marshal(URL(req[p].url, req[p].code, now, 0)))
                    /\ reverse' = Put(reverse, req[p].url, req[p].code)
                    /\ written' = written \cup {req[p].code}
            /\ pc' = [pc EXCEPT ![p] = "cache"]
            /\ resp' = resp
       ELSE /\ Answer(p, ErrorResponse(500, "failed to save url"))
            /\ UNCHANGED <<store, written>>
    /\ UNCHANGED <<cache, pending, now, req, answers, calls, nres, nshort>>

\* Lines 164-204: the read-write transaction that stores the record and the
\* reverse mapping; ok says whether DB.Update committed.
ShortenWrite(p, ok) ==
    /\ pc[p] = "write"
    /\ IF ok
       THEN /\ urls' = Put(urls, req[p].code, Marshal(URL(req[p].url, req[p].code, now, 0)))
            /\ reverse' = Put(reverse, req[p].url, req[p].code)
            /\ written' = written \cup {req[p].code}
            /\ pc' = [pc EXCEPT ![p] = "cache"]
            /\ resp' = resp
       ELSE /\ Answer(p, ErrorResponse(500, "failed to save url"))
            /\ UNCHANGED <<store, written>>
    /\ UNCHANGED <<cache, pending, now, req, answers, calls, nres, nshort>>

\* Lines 206-216: cache the new URL and answer.
ShortenCache(p) ==
    /\ pc[p] = "cache"
    /\ cache' = Put(cache, req[p].code, req[p].url)
    /\ Answer(p, ShortenOK(req[p].code, req[p].url))
    /\ answers' = Append(answers, <<req[p].url, req[p].code>>)
    /\ UNCHANGED <<store, pending, now, req, written, calls, nres, nshort>>

(***************************************************************************)
(* redirectHandler.                                                        *)
(***************************************************************************)
\* The "go func" of lines 232-249 and 280-297: one more increment to run.
Spawn(c) == pending' = Put(pending, c, Count(pending, c) + 1)

\* Mutant: a cache hit redirects without starting the increment.
ResolveBeginNoSpawn(p, shortCode) ==
    /\ pc[p] = "idle"
    /\ nres < MaxResolves
    /\ nres' = nres + 1
    /\ calls' = IF shortCode \in written
                THEN Put(calls, shortCode, Count(calls, shortCode) + 1)
                ELSE calls
    /\ req' = [req EXCEPT ![p] = [NoReq EXCEPT !.op = "resolve", !.code = shortCode]]
    /\ IF Has(cache, shortCode)
       THEN Answer(p, Redirect(cache[shortCode]))
       ELSE /\ pc' = [pc EXCEPT ![p] = "view"]
            /\ resp' = resp
    /\ UNCHANGED <<store, cache, pending, now, answers, written, nshort>>

\* Lines 220-253: the cache lookup, and on a hit the redirect.
ResolveBegin(p, shortCode) ==
    /\ pc[p] = "idle"
    /\ nres < MaxResolves
    /\ nres' = nres + 1
    /\ calls' = IF shortCode \in written
                THEN Put(calls, shortCode, Count(calls, shortCode) + 1)
                ELSE calls
    /\ req' = [req EXCEPT ![p] = [NoReq EXCEPT !.op = "resolve", !.code = shortCode]]
    /\ IF Has(cache, shortCode)
       THEN /\ Spawn(shortCode)
            /\ Answer(p, Redirect(cache[shortCode]))
       ELSE /\ pc' = [pc EXCEPT ![p] = "view"]
            /\ UNCHANGED <<pending, resp>>
    /\ UNCHANGED <<store, cache, now, answers, written, nshort>>

\* Mutant: the handler redirects whatever the lookup found.
ResolveViewNoCheck(p, ok) ==
    /\ pc[p] = "view"
    /\ pc' = [pc EXCEPT ![p] = "fill"]
    /\ req' = [req EXCEPT ![p].orig = IF ok /\ Has(urls, req[p].code)
                                      THEN Unmarshal(urls[req[p].code]).OriginalURL
                                      ELSE <<>>]
    /\ resp' = resp
    /\ UNCHANGED <<store, cache, pending, now, hist>>

\* Lines 255-274: the read-only transaction on the record; ok says whether
\* DB.View returned no error.
ResolveView(p, ok) ==
    /\ pc[p] = "view"
    /\ LET originalURL == IF ok /\ Has(urls, req[p].code)
                          THEN Unmarshal(urls[req[p].code]).OriginalURL
                          ELSE <<>>
       IN IF ~ok \/ originalURL = <<>>
          THEN /\ Answer(p, NotFound)
               /\ req' = [req EXCEPT ![p].err = ~ok]
          ELSE /\ pc' = [pc EXCEPT ![p] = "fill"]
               /\ req' = [req EXCEPT ![p].orig = originalURL]
               /\ resp' = resp
    /\ UNCHANGED <<store, cache, pending, now, hist>>

\* Lines 276-299: fill the cache, start the increment, redirect.
ResolveFill(p) ==
    /\ pc[p] = "fill"
    /\ cache' = Put(cache, req[p].code, req[p].orig)
    /\ Spawn(req[p].code)
    /\ Answer(p, Redirect(req[p].orig))
    /\ UNCHANGED <<store, now, req, hist>>

\* Mutant: an increment that runs while another one for the same code is
\* outstanding writes back the value the other one read.
IncrementStale(c, ok) ==
    /\ Count(pending, c) > 0
    /\ pending' = IF pending[c] = 1 THEN Drop(pending, c) ELSE Put(pending, c, pending[c] - 1)
    /\ urls' = IF ok /\ Has(urls, c) /\ pending[c] = 1
               THEN LET urlData == Unmarshal(urls[c])
                    IN Put(urls, c, Marshal([urlData EXCEPT !.ClickCount = @ + 1]))
               ELSE urls
    /\ UNCHANGED <<reverse, cache, now, pc, req, resp, hist>>

\* The body of the background goroutine: one read-write transaction that
\* reads the record, adds one to ClickCount and writes it back; ok says
\* whether DB.Update committed.
Increment(c, ok) ==
    /\ Count(pending, c) > 0
    /\ pending' = IF pending[c] = 1 THEN Drop(pending, c) ELSE Put(pending, c, pending[c] - 1)
    /\ urls' = IF ok /\ Has(urls, c)
               THEN LET urlData == Unmarshal(urls[c])
                    IN Put(urls, c, Marshal([urlData EXCEPT !.ClickCount = @ + 1]))
               ELSE urls
    /\ UNCHANGED <<reverse, cache, now, pc, req, resp, hist>>

\* The handler has returned; the worker takes the next request.
Return(p) ==
    /\ pc[p] = "done"
    /\ pc' = [pc EXCEPT ![p] = "idle"]
    /\ req' = [req EXCEPT ![p] = NoReq]
    /\ resp' = [resp EXCEPT ![p] = NoResp]
    /\ UNCHANGED <<store, cache, pending, now, hist>>

\* go-cache: an entry's time to live (cache.New, main) has run out.
Expire(c) ==
    /\ Has(cache, c)
    /\ cache' = Drop(cache, c)
    /\ UNCHANGED <<store, pending, now, pc, req, resp, hist>>

\* Time passes.  The clock is read only inside the write transaction of
\* shortenHandler (line 174), so its advance is observable only while some
\* handler is about to run that transaction.
Tick ==
    /\ now < MaxTime
    /\ \E p \in Procs : pc[p] = "write"
    /\ now' = now + 1
    /\ UNCHANGED <<store, cache, pending, pc, req, resp, hist>>

(***************************************************************************)
(* Spec: requests served concurrently by the workers, any store            *)
(* transaction may fail.                                                   *)
(***************************************************************************)
\* Workers are interchangeable: a new request goes to the first free one.
FirstFree(p) == pc[p] = "idle" /\ \A q \in Procs : q < p => pc[q] # "idle"

Next ==
    \/ \E p \in Procs, input \in Inputs : FirstFree(p) /\ ShortenBegin(p, input)
    \/ \E p \in Procs, ok \in BOOLEAN : ShortenDedup(p, ok)
    \/ \E p \in Procs, hash \in Hashes, ok \in BOOLEAN : generateShortCode(p, hash, ok)
    \/ \E p \in Procs, ok \in BOOLEAN : ShortenWrite(p, ok)
    \/ \E p \in Procs : ShortenCache(p)
    \/ \E p \in Procs, c \in ResolveInputs : FirstFree(p) /\ ResolveBegin(p, c)
    \/ \E p \in Procs, ok \in BOOLEAN : ResolveView(p, ok)
    \/ \E p \in Procs : ResolveFill(p)
    \/ \E c \in ResolveInputs, ok \in BOOLEAN : Increment(c, ok)
    \/ \E p \in Procs : Return(p)
    \/ \E c \in ResolveInputs : Expire(c)
    \/ Tick

Spec == Init /\ [][Next]_vars

(***************************************************************************)
(* SeqSpec: requests executed one at a time, by one worker, against a      *)
(* store whose transactions succeed; the background increments, cache      *)
(* expiry and the clock stay asynchronous.                                 *)
(***************************************************************************)
SeqNext ==
    \/ \E input \in Inputs : ShortenBegin(1, input)
    \/ ShortenDedup(1, TRUE)
    \/ \E hash \in Hashes : generateShortCode(1, hash, TRUE)
    \/ ShortenWrite(1, TRUE)
    \/ ShortenCache(1)
    \/ \E c \in ResolveInputs : ResolveBegin(1, c)
    \/ ResolveView(1, TRUE)
    \/ ResolveFill(1)
    \/ \E c \in ResolveInputs : Increment(c, TRUE)
    \/ Return(1)
    \/ \E c \in ResolveInputs : Expire(c)
    \/ Tick

SeqSpec == Init /\ [][SeqNext]_vars

(***************************************************************************)
(* RaceSpec: requests served concurrently against a store whose            *)
(* transactions succeed.                                                   *)
(***************************************************************************)
RaceNext ==
    \/ \E p \in Procs, input \in Inputs : FirstFree(p) /\ ShortenBegin(p, input)
    \/ \E p \in Procs : ShortenDedup(p, TRUE)
    \/ \E p \in Procs, hash \in Hashes : generateShortCode(p, hash, TRUE)
    \/ \E p \in Procs : ShortenWrite(p, TRUE)
    \/ \E p \in Procs : ShortenCache(p)
    \/ \E p \in Procs, c \in ResolveInputs : FirstFree(p) /\ ResolveBegin(p, c)
    \/ \E p \in Procs : ResolveView(p, TRUE)
    \/ \E p \in Procs : ResolveFill(p)
    \/ \E c \in ResolveInputs : Increment(c, TRUE)
    \/ \E p \in Procs : Return(p)
    \/ \E c \in ResolveInputs : Expire(c)
    \/ Tick

RaceSpec == Init /\ [][RaceNext]_vars

(***************************************************************************)
(* GenSpec: Shorten requests executed one at a time, by one worker, whose  *)
(* digests range over every hexadecimal digit at every position read by    *)
(* the generator; any store transaction may fail.                          *)
(***************************************************************************)
WideDigests == Digests \cup { [i \in 1..CodeLen |-> 17 * d] : d \in 0..(Len(HexDigits) - 1) }
WideHashes == { HexEncode(d) : d \in WideDigests }

GenNext ==
    \/ \E input \in Inputs : ShortenBegin(1, input)
    \/ \E ok \in BOOLEAN : ShortenDedup(1, ok)
    \/ \E hash \in WideHashes, ok \in BOOLEAN : generateShortCode(1, hash, ok)
    \/ \E ok \in BOOLEAN : ShortenWrite(1, ok)
    \/ ShortenCache(1)
    \/ Return(1)

GenSpec == Init /\ [][GenNext]_vars

(***************************************************************************)
(* NormSpec: one worker that only shortens, over a wider set of request    *)
(* strings, to exercise the normalisation and the validation.              *)
(***************************************************************************)
WideInputs ==
    Inputs \cup
    { <<"h","t","t","p","s",":","/","/">>,                   \* https://
      <<"h","t","t","p",":","/","b">>,                       \* http:/b
      <<"H","t","t","p",":","/","/","b">>,                   \* Http://b
      <<"f","t","p",":","/","/","x">>,                       \* ftp://x
      <<"a"," ","b">>,                                       \* a b
      <<"/","x">>,                                           \* /x
      <<"?","q">>,                                           \* ?q
      <<"a",":","8","0">>,                                   \* a:80
      <<"a",":","b">>,                                       \* a:b
      <<"h","t","t","p",":","/","/","a",":","b","/">> }      \* http://a:b/

NormNext ==
    \/ \E input \in WideInputs : ShortenBegin(1, input)
    \/ \E ok \in BOOLEAN : ShortenDedup(1, ok)
    \/ \E hash \in Hashes, ok \in BOOLEAN : generateShortCode(1, hash, ok)
    \/ \E ok \in BOOLEAN : ShortenWrite(1, ok)
    \/ ShortenCache(1)
    \/ Return(1)

NormSpec == Init /\ [][NormNext]_vars

(***************************************************************************)
(* Properties.                                                             *)
(***************************************************************************)
ResolveDone(p) == pc[p] = "done" /\ req[p].op = "resolve"
ResolveRunning == \E p \in Procs : req[p].op = "resolve" /\ pc[p] # "done"
RecordsOf(u) == { c \in DOMAIN urls : Rec(c).OriginalURL = u }

\* C1 (SeqSpec): a completed Resolve(c) of a code c that an earlier Shorten
\* answered for URL u redirects to exactly u, from the cache or from the store.
C1_RoundTrip ==
    \A p \in Procs : \A a \in Returned :
        (ResolveDone(p) /\ req[p].code = a[2]) => resp[p] = Redirect(a[1])

\* C1 witness: after two URLs were shortened, a Resolve of the first code was
\* answered from the store (the cache entry had expired).
C1_Witness ==
    \E p \in Procs :
        /\ ResolveDone(p)
        /\ req[p].orig # <<>>
        /\ Len(answers) = 2
        /\ answers[1][2] = req[p].code
        /\ answers[2][2] # req[p].code
        /\ resp[p] = Redirect(answers[1][1])

\* C2 (SeqSpec): Shorten calls with the same normalized URL are answered with
\* the same code, and the store holds exactly one record of that URL.
C2_Idempotent ==
    /\ \A a, b \in Returned : a[1] = b[1] => a[2] = b[2]
    /\ \A a \in Returned : RecordsOf(a[1]) = {a[2]}

\* C2 witness: two Shorten calls for one URL were both answered.
C2_Witness ==
    /\ Len(answers) = 2
    /\ answers[1] = answers[2]
    /\ Cardinality(DOMAIN urls) = 1

\* C3 (Spec): a completed Resolve of a code under which no Shorten has written
\* a record is answered NotFound.
C3_NeverIssuedNotFound ==
    \A p \in Procs : (ResolveDone(p) /\ req[p].code \notin written) => resp[p] = NotFound

\* C3 witness: with a record in the store, a Resolve of another code, never
\* written, has been answered NotFound.
C3_Witness ==
    \E p \in Procs :
        /\ ResolveDone(p)
        /\ req[p].code \notin written
        /\ written # {}
        /\ resp[p] = NotFound

\* C4 (SeqSpec): once no Resolve is running and no increment is pending, the
\* click count of every record equals the number of Resolve calls of its code.
C4_ClickCountEqualsResolves ==
    (~ResolveRunning /\ pending = Empty) =>
        \A c \in DOMAIN urls : Rec(c).ClickCount = Count(calls, c)

\* C4 witness: two Resolve calls of one code, both increments done.
C4_Witness ==
    /\ ~ResolveRunning
    /\ pending = Empty
    /\ \E c \in DOMAIN urls : Count(calls, c) = MaxResolves /\ Rec(c).ClickCount = MaxResolves

\* C5 (RaceSpec): every record stored under c with original_url u has the
\* reverse-index entry u -> c.
C5_RecordHasReverseEntry ==
    \A c \in DOMAIN urls :
        Has(reverse, Rec(c).OriginalURL) /\ reverse[Rec(c).OriginalURL] = c

\* C6 (Spec): every code that is a value of the reverse index has a record.
C6_ReverseEntryHasRecord ==
    \A u \in DOMAIN reverse : Has(urls, reverse[u])

\* C6 witness: two records of one URL are stored (the second call missed the
\* reverse-index entry) and the single reverse entry points at a stored record.
C6_Witness ==
    /\ DOMAIN reverse # {}
    /\ Cardinality(DOMAIN urls) = 2
    /\ Cardinality(DOMAIN reverse) = 1
    /\ \A u \in DOMAIN reverse : Has(urls, reverse[u])

\* C7 (RaceSpec): every step leaves the click count of every stored record
\* unchanged or raises it by exactly one.
C7_ClickCountNeverReset ==
    [][\A c \in DOMAIN urls :
          /\ c \in DOMAIN urls'
          /\ \/ Unmarshal(urls'[c]).ClickCount = Rec(c).ClickCount
             \/ Unmarshal(urls'[c]).ClickCount = Rec(c).ClickCount + 1]_vars

\* C8 (RaceSpec): a stored record is never deleted, and its original_url,
\* short_code and created_at never change.
C8_RecordImmutable ==
    [][\A c \in DOMAIN urls :
          /\ c \in DOMAIN urls'
          /\ Unmarshal(urls'[c]).OriginalURL = Rec(c).OriginalURL
          /\ Unmarshal(urls'[c]).ShortCode = Rec(c).ShortCode
          /\ Unmarshal(urls'[c]).CreatedAt = Rec(c).CreatedAt]_vars

\* C9 (RaceSpec): every cache entry c -> u agrees with the store: a record is
\* stored under c and its original_url is u.
C9_CacheAgreesWithStore ==
    \A c \in DOMAIN cache : Has(urls, c) /\ Rec(c).OriginalURL = cache[c]

\* C10 (GenSpec): every code the generator returned, Shorten answered, or a
\* record is stored under has exactly 8 characters, each of the 62 symbols.
WellFormed(c) == Len(c) = 8 /\ \A i \in 1..Len(c) : c[i] \in Alphabet

C10_CodesWellFormed ==
    /\ \A c \in DOMAIN urls : WellFormed(c) /\ WellFormed(Rec(c).ShortCode)
    /\ \A a \in Returned : WellFormed(a[2])
    /\ \A p \in Procs : pc[p] \in {"write", "cache"} => WellFormed(req[p].code)
    /\ \A p \in Procs : resp[p].kind = "shortened" => WellFormed(resp[p].short_code)

\* C10 witness: a code made from a digest of letters (hexadecimal "f") is
\* stored and answered next to one made from a digest of digits.
C10_Witness ==
    /\ CodeOfHash([i \in 1..CodeLen |-> "f"]) \in DOMAIN urls
    /\ \E a \in Returned : a[2] = CodeOfHash([i \in 1..CodeLen |-> "0"])

\* C11 (normalisation and validation): a Shorten request works on "https://" +
\* input when the input starts with neither "http://" nor "https://", and on
\* the input itself otherwise; that string is the one stored, as the record's
\* OriginalURL and as the reverse-index key; the request is answered
\* "invalid url format" exactly when that string does not parse as a URL with
\* a non-empty scheme and host, and then nothing is stored for it.
Prefixed(s) == HasPrefix(s, HttpPrefix) \/ HasPrefix(s, HttpsPrefix)
Parses(s) ==
    /\ ~ParseError(s)
    /\ getScheme(s) # <<>>
    /\ getHost(getAuthority(SubSeq(s, Len(getScheme(s)) + 2, Len(s)))) # <<>>
InvalidURL(p) == pc[p] = "done" /\ resp[p] = ErrorResponse(400, "invalid url format")

C11_NormalizeAndValidate ==
    /\ \A p \in Procs : req[p].op = "shorten" =>
          LET raw == req[p].input
              u == IF Prefixed(raw) THEN raw ELSE HttpsPrefix \o raw
          IN /\ req[p].url = u
             /\ InvalidURL(p) <=> ~Parses(u)
             /\ InvalidURL(p) => ~Has(reverse, u) /\ RecordsOf(u) = {}
             /\ pc[p] = "cache" =>
                   /\ Has(urls, req[p].code) /\ Rec(req[p].code).OriginalURL = u
                   /\ Has(reverse, u) /\ reverse[u] = req[p].code
    /\ \A u \in DOMAIN reverse : Parses(u)

\* An unprefixed input has been stored under "https://" + input, and a later
\* request whose normalised string has an invalid port was refused.
C11_Witness ==
    /\ InvalidURL(1) /\ req[1].input = <<"a", ":", "b">>
    /\ \E raw \in WideInputs : ~Prefixed(raw) /\ Has(reverse, HttpsPrefix \o raw)

\* C12 (dedup path leaves state unchanged): a Shorten whose URL is in the
\* reverse index when the handler looks it up answers the code stored there
\* and returns without entering the generator, and neither the step that
\* starts the request nor the lookup step changes the urls bucket, the
\* reverse bucket or the cache.
C12_DedupLeavesStateUnchanged ==
    [][\A p \in Procs :
          /\ (pc[p] = "idle" /\ req'[p].op = "shorten") =>
                urls' = urls /\ reverse' = reverse /\ cache' = cache
          /\ (pc[p] = "dedup" /\ Has(reverse, req[p].url)) =>
                /\ pc'[p] \in {"dedup", "done"}
                /\ pc'[p] = "done" =>
                      /\ resp'[p] = ShortenOK(reverse[req[p].url], req[p].url)
                      /\ req'[p].hash = <<>>
                      /\ urls' = urls /\ reverse' = reverse /\ cache' = cache]_vars

\* A Shorten was answered from the reverse index, without a digest, while the
\* cache held nothing.
C12_Witness ==
    \E p \in Procs :
        /\ pc[p] = "done" /\ req[p].op = "shorten" /\ req[p].hash = <<>>
        /\ Has(reverse, req[p].url)
        /\ resp[p] = ShortenOK(reverse[req[p].url], req[p].url)
        /\ cache = Empty

\* C13 (a failed Shorten leaves no trace): the step in which a Shorten fails
\* at the generator's existence check or at the write transaction changes
\* neither bucket nor the cache, and afterwards no record, no reverse entry
\* and no cache entry exists for the candidate code; the buckets change only
\* in a write transaction that commits, the cache only after such a commit,
\* and a handler past its commit always answers with its code.
C13_FailedShortenLeavesNoTrace ==
    [][/\ \A p \in Procs :
            /\ (pc[p] \in {"generate", "write"} /\ pc'[p] = "done") =>
                  /\ resp'[p].kind = "error"
                  /\ urls' = urls /\ reverse' = reverse /\ cache' = cache
                  /\ req'[p].code # <<>> =>
                        /\ ~Has(urls', req'[p].code)
                        /\ ~Has(cache', req'[p].code)
                        /\ \A u \in DOMAIN reverse' : reverse'[u] # req'[p].code
            /\ (pc[p] = "cache" /\ pc'[p] # "cache") =>
                  pc'[p] = "done" /\ resp'[p] = ShortenOK(req[p].code, req[p].url)
       /\ (urls' # urls \/ reverse' # reverse) =>
            \E p \in Procs : pc[p] = "write" /\ pc'[p] = "cache"
       /\ cache' # cache => \E p \in Procs : pc[p] = "cache" /\ pc'[p] = "done"]_vars

\* With one record stored, a later Shorten failed in its write transaction
\* and its candidate code is nowhere.
C13_Witness ==
    /\ pc[1] = "done" /\ resp[1] = ErrorResponse(500, "failed to save url")
    /\ urls # Empty
    /\ ~Has(urls, req[1].code) /\ ~Has(cache, req[1].code)

\* C14 (the Shorten race is reachable): when two Shorten calls for one URL
\* are both past their write transaction holding different codes, each code
\* has a record in the urls bucket, the URL has a reverse entry, and each
\* caller that has been answered received its own code.  C14_Witness is the
\* state the claim says can be reached.
Committed(p) == req[p].op = "shorten" /\ req[p].hash # <<>> /\ pc[p] \in {"cache", "done"}
                /\ resp[p].kind # "error"

C14_RaceCommitsTwoRecords ==
    \A p, q \in Procs :
        (/\ p # q /\ Committed(p) /\ Committed(q)
         /\ req[p].url = req[q].url /\ req[p].code # req[q].code) =>
            /\ Has(urls, req[p].code) /\ Has(urls, req[q].code)
            /\ Has(reverse, req[p].url)
            /\ pc[p] = "done" => resp[p] = ShortenOK(req[p].code, req[p].url)

\* Two Shorten calls for one URL have both generated, committed and answered:
\* two records with different codes hold the same OriginalURL, and the two
\* callers were given different codes.
C14_Witness ==
    \E p, q \in Procs :
        /\ p # q /\ Committed(p) /\ Committed(q)
        /\ pc[p] = "done" /\ pc[q] = "done"
        /\ req[p].url = req[q].url /\ resp[p].short_code # resp[q].short_code
        /\ {resp[p].short_code, resp[q].short_code} \subseteq RecordsOf(req[p].url)

\* C15 as claimed (lost update on the click counter): when two Resolve calls
\* for one code have both redirected while in flight together and both their
\* increments have run, the counter is one short of the redirects counted.
ConcurrentRedirects(p, q) ==
    /\ p # q /\ ResolveDone(p) /\ ResolveDone(q)
    /\ req[p].code = req[q].code
    /\ resp[p].kind = "redirect" /\ resp[q].kind = "redirect"
    /\ Count(pending, req[p].code) = 0

C16_ReadFailureIsServerError ==
    [][\A p \in Procs :
          (pc[p] = "view" /\ pc'[p] = "done" /\ req'[p].err /\ Has(urls, req[p].code)) =>
              /\ resp'[p].kind = "error" /\ resp'[p].status = 500
              /\ resp'[p] # NotFound]_vars

\* C17 (a failed dedup lookup ends the Shorten): a Shorten handler whose
\* reverse-index lookup returned a store error is not on the creation path;
\* it has answered an error without drawing a digest.
C17_LookupFailureSurfaces ==
    [][\A p \in Procs :
          (pc[p] = "dedup" /\ req'[p].err) =>
              /\ pc'[p] = "done" /\ resp'[p].kind = "error"
              /\ req'[p].hash = <<>> /\ req'[p].code = <<>>]_vars

\* C18 (the increment is fire-and-forget): the step in which a Resolve
\* answers a redirect adds exactly one outstanding increment for its code,
\* and no other step adds one; the step in which an increment runs, whether
\* its transaction commits or not, takes that increment off the outstanding
\* ones and changes no handler's position, request or response, nor the
\* cache or the reverse bucket.
Redirects(p) == pc[p] # "done" /\ pc'[p] = "done" /\ resp'[p].kind = "redirect"

C18_FireAndForget ==
    [][/\ \A p \in Procs :
            Redirects(p) =>
                Count(pending', req'[p].code) = Count(pending, req'[p].code) + 1
       /\ \A c \in ResolveInputs :
            /\ Count(pending', c) > Count(pending, c) =>
                  \E p \in Procs : Redirects(p) /\ req'[p].code = c
            /\ Count(pending', c) < Count(pending, c) =>
                  /\ Count(pending', c) = Count(pending, c) - 1
                  /\ pc' = pc /\ req' = req /\ resp' = resp
                  /\ cache' = cache /\ reverse' = reverse]_vars

\* The only Resolve so far has redirected, its increment has run and failed:
\* nothing is outstanding and the counter still reads zero.
C18_Witness ==
    \E p \in Procs :
        /\ ResolveDone(p) /\ resp[p].kind = "redirect"
        /\ nres = 1 /\ nshort = 1
        /\ pending = Empty
        /\ Has(urls, req[p].code) /\ Rec(req[p].code).ClickCount = 0

\* C19 (the generator returns only unused codes): a generator pass whose
\* check finds a record under the candidate discards it and stays in the
\* generator for another digest; the pass that returns hands the handler the
\* candidate of its digest, and no record is stored under it; and with one
\* request at a time the write that follows stores a new key and leaves
\* every record already stored as it was.
C19_GeneratorReturnsUnusedCode ==
    [][\A p \in Procs :
          /\ (pc[p] = "generate" /\ req'[p] # req[p] /\ ~req'[p].err) =>
                IF Has(urls, CodeOfHash(req'[p].hash))
                THEN pc'[p] = "generate" /\ req'[p].code = <<>>
                ELSE pc'[p] = "write" /\ req'[p].code = CodeOfHash(req'[p].hash)
          /\ (pc[p] = "generate" /\ pc'[p] = "write") => ~Has(urls, req'[p].code)
          /\ (pc[p] = "write" /\ pc'[p] = "cache") =>
                /\ ~Has(urls, req[p].code)
                /\ \A c \in DOMAIN urls : Has(urls', c) /\ urls'[c] = urls[c]]_vars

\* A second record has been created next to the first one.
C19_Witness ==
    /\ pc[1] = "cache"
    /\ Cardinality(DOMAIN urls) = 2
    /\ Rec(req[1].code).ClickCount = 0

\* A generator pass has discarded a candidate that the store already holds.
C19_RetryWitness ==
    /\ pc[1] = "generate" /\ req[1].hash # <<>>
    /\ Has(urls, CodeOfHash(req[1].hash))

\* C20 (each character comes from one byte of the hash): the code the
\* generator returns has, at every position i of its eight, the alphabet
\* symbol at index (i-th byte of the digest) mod 62.
C20_CodeFromDigestBytes ==
    \A p \in Procs :
        (req[p].op = "shorten" /\ req[p].hash # <<>> /\ pc[p] \in {"write", "cache"}) =>
            \A d \in WideDigests :
                HexEncode(d) = req[p].hash =>
                    \A i \in 1..CodeLen : req[p].code[i] = base62Chars[(d[i] % Base) + 1]

====
